---- MODULE Spec2Model ----
(***************************************************************************)
(* SegmentClient (packages/core/src/analytics.ts): the readiness gate for  *)
(* plugin registration, the flush scheduler, the application-lifecycle     *)
(* tracker and the init()/cleanup() sequencing around them.                *)
(*                                                                         *)
(* JavaScript runs one callback at a time.  A handler is one atomic action *)
(* unless it calls back into plugin code (configure(), flush()) or         *)
(* suspends at an await; those handlers are split at exactly these points, *)
(* and while pc # "idle" only the calls a plugin can make from inside the  *)
(* callback are enabled.                                                   *)
(***************************************************************************)
EXTENDS Integers, Sequences, FiniteSets, TLC

\* ---------------------------------------------------------------- bounds
MaxAdds     == 2   \* add() calls made by the application per process
MaxSignals  == 2   \* notifications delivered by store.isReady.onChange
MaxThrows   == 1   \* configure() calls that throw
MaxInits    == 2   \* init() calls per process
MaxEvents   == 2   \* size of the buffered-event collection
MaxInflight == 2   \* unfinished deliveries per plugin
MaxInterval == 2   \* largest configured flushInterval
MaxStartups == 2   \* processes started on the same persisted store
MaxUuids    == 3   \* identifiers getUUID() returns

\* ---------------------------------------------------------------- plugins
SegmentPlugin == "segment"    \* new SegmentDestination()
ContextPlugin == "context"    \* new InjectContext()
UserPlugins   == {"dest", "enrich"}
Plugins       == {SegmentPlugin, ContextPlugin} \cup UserPlugins

Stages == <<"before", "enrichment", "utility", "destination", "after">>

PluginTypeOf(p) ==
  CASE p = SegmentPlugin -> "destination"
    [] p = ContextPlugin -> "before"
    [] p = "dest"        -> "destination"
    [] OTHER             -> "enrichment"

HasFlush(p) == p \in {SegmentPlugin, "dest"}

Versions    == {"v1", "v2"}
UserIds     == {"u1", "u2"}
TraitKeys   == {"a", "b"}
TraitVals   == {0, 1}
AppStates   == {"active", "inactive", "background"}

VARIABLES
  cfg,                \* this.config
  storeReady,         \* store.isReady.get()
  events,             \* store.events.get().length
  storeContext,       \* store.context.get(): "none" or the persisted app version
  settings,           \* store.settings.get(): "none", "remote" or "default"
  forcedSettings,     \* destination keys given to store.settings.add
  appVersion,         \* (await getContext()).app.version
  initialUrl,         \* Linking.getInitialURL() returns a url
  secondsElapsed, appState, appStateListener, timerOn, watchers,
  destroyed, isPendingUpload, isAddingPlugins, timeline,
  isStorageReady, pluginsToAdd, isInitialized,
  readySubs,          \* callbacks attached with store.isReady.onChange
  pc,                 \* "idle", or the handler that is inside plugin code
  drainIdx, drainLen, drainCaller,
  flushIdx, flushList, flushCaller,
  inits,              \* position of each init() call
  inflight,           \* per plugin: deliveries started by flush() and unfinished
  \* history
  addLog,             \* plugins add() has queued or registered, in call order
  queuedLog,          \* plugins pushed on pluginsToAdd by add() calls made outside configure()
  reentrantLog,       \* plugins add()ed from inside configure() during a drain
  regLog,             \* plugins passed to timeline.add(), in order
  drainStarted,       \* a readiness drain has begun
  flushedSet,         \* plugins whose flush() the current flush() has called
  checksDone,         \* startup checks completed in this process
  installedCount,     \* 'Application Installed' events emitted on this store
  startups,
  fuel,
  last,               \* the step just taken
  userInfo,           \* store.userInfo.get()
  uuids,              \* identifiers getUUID() has returned so far
  unsubCalled,        \* watchers whose unsubscribe the last cleanup() called
  released,           \* plugins given to remove() and not to add() since
  appEvents           \* the last two events handleAppStateChange emitted

storeVars  == <<storeReady, events, storeContext, settings, forcedSettings>>
envVars    == <<appVersion, initialUrl, inflight>>
gateVars   == <<isAddingPlugins, timeline, isStorageReady, pluginsToAdd, readySubs>>
drainVars  == <<drainIdx, drainLen, drainCaller>>
flushVars  == <<isPendingUpload, secondsElapsed, flushIdx, flushList, flushCaller, flushedSet>>
setupVars  == <<timerOn, watchers, appStateListener, unsubCalled>>
idVars     == <<userInfo, uuids>>
lifeVars   == <<appState, checksDone, installedCount, appEvents>>
histVars   == <<addLog, queuedLog, reentrantLog, regLog, drainStarted>>

vars == <<cfg, storeReady, events, storeContext, settings, forcedSettings,
          appVersion, initialUrl, secondsElapsed, appState, appStateListener,
          timerOn, watchers, destroyed, isPendingUpload, isAddingPlugins,
          timeline, isStorageReady, pluginsToAdd, isInitialized, readySubs, pc,
          drainIdx, drainLen, drainCaller, flushIdx, flushList, flushCaller,
          inits, inflight, addLog, queuedLog, reentrantLog, regLog,
          drainStarted, flushedSet, checksDone, installedCount, startups,
          fuel, last, userInfo, uuids, unsubCalled,
          released, appEvents>>

\* ---------------------------------------------------------------- helpers
RECURSIVE Count(_, _)
Count(s, x) ==
  IF s = <<>> THEN 0
  ELSE (IF Head(s) = x THEN 1 ELSE 0) + Count(Tail(s), x)

\* the step just taken: the handler, its argument, the value it read
\* before overwriting it, the events it gave to process() and the flush()
\* calls it made
StepP(kind, arg, prev, emits, flushes) ==
  [kind |-> kind, arg |-> arg, prev |-> prev, emits |-> emits, flushes |-> flushes]

Step(kind, arg, emits, flushes) == StepP(kind, arg, "", emits, flushes)

\* ---------------------------------------------------------------- Timeline
EmptyTimeline == [s \in {Stages[k] : k \in 1..Len(Stages)} |-> <<>>]

TimelineAdd(tl, p) == [tl EXCEPT ![PluginTypeOf(p)] = Append(@, p)]

TimelineRemove(tl, p) ==
  [tl EXCEPT ![PluginTypeOf(p)] = SelectSeq(@, LAMBDA q : q # p)]

GetPlugins(tl) ==
  tl["before"] \o tl["enrichment"] \o tl["utility"] \o tl["destination"] \o tl["after"]

GetPluginsWithFlush(tl) == SelectSeq(GetPlugins(tl), HasFlush)

\* ---------------------------------------------------------------- construction
ConstructorAdds(c) ==
  (IF c.autoAddSegmentDestination THEN <<SegmentPlugin>> ELSE <<>>) \o <<ContextPlugin>>

Constructed(c) ==
  /\ secondsElapsed = 0
  /\ appState = "unknown"
  /\ appStateListener = FALSE
  /\ timerOn = FALSE
  /\ watchers = <<>>
  /\ unsubCalled = {}
  /\ destroyed = FALSE
  /\ isPendingUpload = FALSE
  /\ isAddingPlugins = FALSE
  /\ timeline = EmptyTimeline
  /\ isStorageReady = FALSE
  /\ pluginsToAdd = ConstructorAdds(c)
  /\ isInitialized = FALSE
  /\ readySubs = 0
  /\ pc = "idle"
  /\ drainIdx = 0 /\ drainLen = 0 /\ drainCaller = 0
  /\ flushIdx = 0 /\ flushList = <<>> /\ flushCaller = 0
  /\ inits = [i \in 1..MaxInits |-> "new"]
  /\ inflight = [p \in Plugins |-> 0]
  /\ addLog = ConstructorAdds(c)
  /\ queuedLog = ConstructorAdds(c)
  /\ reentrantLog = <<>>
  /\ regLog = <<>>
  /\ drainStarted = FALSE
  /\ released = {}
  /\ flushedSet = {}
  /\ checksDone = 0
  /\ appEvents = <<>>
  /\ fuel = [throws |-> MaxThrows, signals |-> MaxSignals, adds |-> MaxAdds]
  /\ last = Step("new", "", <<>>, 0)

\* ---------------------------------------------------------------- readiness gate
\* the condition of onStorageReady
DrainGuard(isReady, queue, adding) == isReady /\ Len(queue) > 0 /\ ~adding

\* add() that registers at once whatever the gate's state
QueuesPluginNever(ready) == FALSE

\* add(): the plugin is cached while the storage is not ready
QueuesPlugin(ready) == ~ready

\* onStorageReady(isReady) up to its first call of plugin.configure();
\* caller is the init() call it runs in, 0 for a store notification
OnStorageReady(isReady, caller) ==
  IF DrainGuard(isReady, pluginsToAdd, isAddingPlugins)
  THEN /\ isAddingPlugins' = TRUE
       /\ pc' = "drain"
       /\ drainIdx' = 1
       /\ drainLen' = Len(pluginsToAdd)   \* forEach fixes its range before the first callback
       /\ drainCaller' = caller
       /\ drainStarted' = TRUE
  ELSE UNCHANGED <<isAddingPlugins, pc, drainVars, drainStarted>>

\* a notification of store.isReady.onChange reaches the callback init() attached
ReadySignal(v) ==
  /\ pc = "idle" /\ readySubs > 0 /\ fuel.signals > 0
  /\ storeReady' = v
  /\ OnStorageReady(v, 0)
  /\ fuel' = [fuel EXCEPT !.signals = @ - 1]
  /\ last' = Step("ready", "", <<>>, 0)
  /\ UNCHANGED <<cfg, idVars, released, events, storeContext, settings, forcedSettings, envVars,
                 timeline, isStorageReady, pluginsToAdd, readySubs, flushVars,
                 setupVars, lifeVars, addLog, queuedLog, reentrantLog, regLog,
                 destroyed, isInitialized, inits, startups>>

\* the drain's forEach callback: addPlugin(plugin) returns normally
DrainConfigure ==
  /\ pc = "drain" /\ drainIdx <= drainLen
  /\ timeline' = TimelineAdd(timeline, pluginsToAdd[drainIdx])
  /\ regLog' = Append(regLog, pluginsToAdd[drainIdx])
  /\ drainIdx' = drainIdx + 1
  /\ last' = Step("configure", pluginsToAdd[drainIdx], <<>>, 0)
  /\ UNCHANGED <<cfg, idVars, released, storeVars, envVars, isAddingPlugins, isStorageReady,
                 pluginsToAdd, readySubs, drainLen, drainCaller, flushVars,
                 setupVars, lifeVars, addLog, queuedLog, reentrantLog,
                 drainStarted, destroyed, isInitialized, pc, inits, startups, fuel>>

\* plugin.configure() throws inside the drain: the finally block runs and the
\* exception leaves onStorageReady (and rejects the init() it was called from)
DrainThrow ==
  /\ pc = "drain" /\ drainIdx <= drainLen /\ fuel.throws > 0
  /\ isAddingPlugins' = FALSE
  /\ pc' = "idle"
  /\ inits' = IF drainCaller > 0 THEN [inits EXCEPT ![drainCaller] = "failed"] ELSE inits
  /\ fuel' = [fuel EXCEPT !.throws = @ - 1]
  /\ last' = Step("configureThrew", pluginsToAdd[drainIdx], <<>>, 0)
  /\ UNCHANGED <<cfg, idVars, released, storeVars, envVars, timeline, isStorageReady, pluginsToAdd,
                 readySubs, drainVars, flushVars, setupVars, lifeVars, histVars,
                 destroyed, isInitialized, startups>>

\* the forEach has visited its range: clear the cache, open the gate
DrainFinish ==
  /\ pc = "drain" /\ drainIdx > drainLen
  /\ pluginsToAdd' = <<>>
  /\ isStorageReady' = TRUE
  /\ readySubs' = readySubs       \* this.readinessWatcher is never assigned: nothing to call
  /\ isAddingPlugins' = FALSE
  /\ pc' = "idle"
  /\ inits' = IF drainCaller > 0 THEN [inits EXCEPT ![drainCaller] = "fetch"] ELSE inits
  /\ last' = Step("drained", "", <<>>, 0)
  /\ UNCHANGED <<cfg, idVars, released, storeVars, envVars, timeline, drainVars, flushVars,
                 setupVars, lifeVars, histVars, destroyed, isInitialized,
                 startups, fuel>>

\* add({plugin, settings}) whose plugin.configure() returns normally
AddBody(p, ws, inConfigure) ==
  /\ forcedSettings' = IF ws /\ PluginTypeOf(p) = "destination"
                       THEN forcedSettings \cup {p} ELSE forcedSettings
  /\ addLog' = Append(addLog, p)
  /\ released' = released \ {p}
  /\ IF QueuesPlugin(isStorageReady)
     THEN /\ pluginsToAdd' = Append(pluginsToAdd, p)
          /\ queuedLog' = IF inConfigure THEN queuedLog ELSE Append(queuedLog, p)
          /\ UNCHANGED <<timeline, regLog>>
     ELSE /\ timeline' = TimelineAdd(timeline, p)
          /\ regLog' = Append(regLog, p)
          /\ UNCHANGED <<pluginsToAdd, queuedLog>>
  /\ fuel' = [fuel EXCEPT !.adds = @ - 1]

Add(p, ws) ==
  /\ pc = "idle" /\ fuel.adds > 0
  /\ ws => PluginTypeOf(p) = "destination"   \* settings are typed for destinations only
  /\ AddBody(p, ws, FALSE)
  /\ last' = Step("add", p, <<>>, 0)
  /\ UNCHANGED <<cfg, idVars, storeReady, events, storeContext, settings, envVars,
                 isAddingPlugins, isStorageReady, readySubs, drainVars,
                 flushVars, setupVars, lifeVars, reentrantLog, drainStarted,
                 destroyed, isInitialized, pc, inits, startups>>

\* add() called by the configure() of the plugin the drain is registering
DrainReentrantAdd(p) ==
  /\ pc = "drain" /\ drainIdx <= drainLen /\ fuel.adds > 0
  /\ AddBody(p, FALSE, TRUE)
  /\ reentrantLog' = Append(reentrantLog, p)
  /\ last' = Step("addInConfigure", p, <<>>, 0)
  /\ UNCHANGED <<cfg, idVars, storeReady, events, storeContext, settings, envVars,
                 isAddingPlugins, isStorageReady, readySubs, drainVars,
                 flushVars, setupVars, lifeVars, drainStarted,
                 destroyed, isInitialized, pc, inits, startups>>

\* add() once the gate is open, plugin.configure() throws: addPlugin never
\* reaches timeline.add and the exception leaves add()
AddThrows(p) ==
  /\ pc = "idle" /\ fuel.adds > 0 /\ fuel.throws > 0
  /\ ~QueuesPlugin(isStorageReady)
  /\ fuel' = [fuel EXCEPT !.adds = @ - 1, !.throws = @ - 1]
  /\ last' = Step("addThrew", p, <<>>, 0)
  /\ UNCHANGED <<cfg, idVars, released, storeVars, envVars, gateVars, drainVars, flushVars,
                 setupVars, lifeVars, histVars, destroyed, isInitialized, pc,
                 inits, startups>>

\* remove({plugin})
Remove(p) ==
  /\ pc = "idle"
  /\ timeline' = TimelineRemove(timeline, p)
  /\ released' = released \cup {p}
  /\ last' = Step("remove", "", <<>>, 0)
  /\ UNCHANGED <<cfg, idVars, storeVars, envVars, isAddingPlugins, isStorageReady,
                 pluginsToAdd, readySubs, drainVars, flushVars, setupVars,
                 lifeVars, histVars, destroyed, isInitialized, pc, inits,
                 startups, fuel>>

\* ---------------------------------------------------------------- flush scheduler
\* flush() that calls the plugins whatever the size of the events array
ShouldFlushPluginsAlways(n) == TRUE

\* flush(): the plugins are called only for a non-empty events array
ShouldFlushPlugins(n) == n > 0

\* tick() that flushes one second late
TickFlushesLate(elapsed, interval) == elapsed + 1 > interval

\* tick(): the interval has elapsed
TickFlushes(elapsed, interval) == elapsed + 1 >= interval

\* an events watcher that flushes only above the threshold
SizeTriggerAbove(n, flushAt) == n > flushAt

\* the events watcher of setupStorageSubscribers
SizeTrigger(n, flushAt) == n >= flushAt

WatcherActive == \E k \in 1..Len(watchers) : watchers[k]

\* flush() up to its first call of plugin.flush(); ev is what
\* store.events.get() returns; caller is the init() call it runs in, or 0
FlushStart(caller, ev) ==
  IF isPendingUpload \/ destroyed
  THEN UNCHANGED <<flushVars, pc>>
  ELSE /\ secondsElapsed' = 0
       /\ IF ShouldFlushPlugins(ev) /\ GetPluginsWithFlush(timeline) # <<>>
          THEN /\ isPendingUpload' = TRUE
               /\ pc' = "flush"
               /\ flushIdx' = 1
               /\ flushList' = GetPluginsWithFlush(timeline)
               /\ flushCaller' = caller
               /\ flushedSet' = {}
          ELSE UNCHANGED <<isPendingUpload, pc, flushIdx, flushList, flushCaller, flushedSet>>

\* init() after its startup flush: setupInterval, setupStorageSubscribers,
\* setupLifecycleEvents, then trackDeepLinks suspends at Linking.getInitialURL()
InitSetup(i) ==
  /\ timerOn' = TRUE
  /\ watchers' = Append([k \in 1..Len(watchers) |-> FALSE], TRUE)
  /\ appStateListener' = TRUE
  /\ unsubCalled' = unsubCalled
  /\ inits' = [inits EXCEPT ![i] = "url"]

\* the finally block of flush(), and the rest of the turn of its caller
FlushFinish ==
  /\ isPendingUpload' = FALSE
  /\ pc' = "idle"
  /\ IF flushCaller > 0 THEN InitSetup(flushCaller) ELSE UNCHANGED <<setupVars, inits>>

\* flush() called by the application
ManualFlush ==
  /\ pc = "idle"
  /\ FlushStart(0, events)
  /\ last' = Step("flush", "", <<>>, 1)
  /\ UNCHANGED <<cfg, idVars, released, storeVars, envVars, gateVars, drainVars, setupVars,
                 lifeVars, histVars, destroyed, isInitialized, inits, startups, fuel>>

\* the setInterval callback
Tick ==
  /\ pc = "idle" /\ timerOn
  /\ IF TickFlushes(secondsElapsed, cfg.flushInterval)
     THEN /\ FlushStart(0, events)
          /\ last' = Step("tick", "", <<>>, 1)
     ELSE /\ secondsElapsed' = secondsElapsed + 1
          /\ last' = Step("tick", "", <<>>, 0)
          /\ UNCHANGED <<isPendingUpload, flushIdx, flushList, flushCaller, flushedSet, pc>>
  /\ UNCHANGED <<cfg, idVars, released, storeVars, envVars, gateVars, drainVars, setupVars,
                 lifeVars, histVars, destroyed, isInitialized, inits, startups, fuel>>

\* the forEach callback of flush(): plugin.flush() starts a delivery and returns
FlushPlugin ==
  /\ pc = "flush" /\ flushIdx <= Len(flushList)
  /\ inflight[flushList[flushIdx]] < MaxInflight
  /\ inflight' = [inflight EXCEPT ![flushList[flushIdx]] = @ + 1]
  /\ flushedSet' = flushedSet \cup {flushList[flushIdx]}
  /\ flushIdx' = flushIdx + 1
  /\ last' = Step("pluginFlush", "", <<>>, 0)
  /\ UNCHANGED <<cfg, idVars, released, storeVars, appVersion, initialUrl, gateVars, drainVars,
                 isPendingUpload, secondsElapsed, flushList, flushCaller,
                 setupVars, lifeVars, histVars, destroyed, isInitialized, pc,
                 inits, startups, fuel>>

\* plugin.flush() throws: the forEach is abandoned, the finally block runs and
\* the promise flush() returned is rejected
FlushPluginThrows ==
  /\ pc = "flush" /\ flushIdx <= Len(flushList)
  /\ FlushFinish
  /\ flushedSet' = flushedSet \cup {flushList[flushIdx]}
  /\ last' = Step("pluginFlushThrew", "", <<>>, 0)
  /\ UNCHANGED <<cfg, idVars, released, storeVars, envVars, gateVars, drainVars, secondsElapsed,
                 flushIdx, flushList, flushCaller, lifeVars,
                 histVars, destroyed, isInitialized, startups, fuel>>

\* flush() called by a plugin from inside its own flush(): isPendingUpload is set
FlushInFlush ==
  /\ pc = "flush" /\ flushIdx <= Len(flushList)
  /\ FlushStart(0, events)
  /\ last' = Step("flushInFlush", "", <<>>, 1)
  /\ UNCHANGED <<cfg, idVars, released, storeVars, envVars, gateVars, drainVars, setupVars,
                 lifeVars, histVars, destroyed, isInitialized, inits, startups, fuel>>

\* the forEach of flush() has visited every plugin
FlushExit ==
  /\ pc = "flush" /\ flushIdx > Len(flushList)
  /\ FlushFinish
  /\ last' = Step("flushed", "", <<>>, 0)
  /\ UNCHANGED <<cfg, idVars, released, storeVars, envVars, gateVars, drainVars, secondsElapsed,
                 flushIdx, flushList, flushCaller, flushedSet, lifeVars,
                 histVars, destroyed, isInitialized, startups, fuel>>

\* the flush() calls the events watcher makes when the collection changes to n
WatcherFlushes(n) == IF WatcherActive /\ SizeTrigger(n, cfg.flushAt) THEN 1 ELSE 0

\* queueEvent(event), called by a destination plugin
QueueEvent ==
  /\ pc = "idle" /\ events < MaxEvents
  /\ events' = events + 1
  /\ IF WatcherFlushes(events + 1) = 1
     THEN FlushStart(0, events + 1)
     ELSE UNCHANGED <<flushVars, pc>>
  /\ last' = Step("queueEvent", "", <<>>, WatcherFlushes(events + 1))
  /\ UNCHANGED <<cfg, idVars, released, storeReady, storeContext, settings, forcedSettings,
                 envVars, gateVars, drainVars, setupVars, lifeVars, histVars,
                 destroyed, isInitialized, inits, startups, fuel>>

\* a delivery started by plugin.flush() ends; the plugin calls removeEvents
\* for the k events it delivered (none when the upload failed)
DeliveryDone(p, k) ==
  /\ pc = "idle" /\ inflight[p] > 0 /\ k <= events
  /\ inflight' = [inflight EXCEPT ![p] = @ - 1]
  /\ events' = events - k
  /\ IF k > 0 /\ WatcherFlushes(events - k) = 1
     THEN FlushStart(0, events - k)
     ELSE UNCHANGED <<flushVars, pc>>
  /\ last' = Step("delivered", "", <<>>, IF k > 0 THEN WatcherFlushes(events - k) ELSE 0)
  /\ UNCHANGED <<cfg, idVars, released, storeReady, storeContext, settings, forcedSettings,
                 appVersion, initialUrl, gateVars, drainVars, setupVars,
                 lifeVars, histVars, destroyed, isInitialized, inits, startups, fuel>>

\* unsubscribeStorageWatchers that has no try/catch around unsubscribe(): the
\* loop ends at the first unsubscribe that throws
UnsubscribeCallsUntilThrow(n, throwers) ==
  {k \in 1..n : \A j \in 1..(k - 1) : j \notin throwers}

\* unsubscribeStorageWatchers(): the watchers whose unsubscribe() is called
\* when those in throwers throw; each call is in its own try/catch
UnsubscribeCalls(n, throwers) == 1..n

\* cleanup(); the unsubscribe() of the watchers in throwers throws and leaves
\* its subscription as it was
Cleanup(throwers) ==
  /\ pc = "idle"
  /\ throwers \subseteq 1..Len(watchers)
  /\ timerOn' = FALSE
  /\ readySubs' = readySubs       \* this.readinessWatcher is undefined
  /\ unsubCalled' = UnsubscribeCalls(Len(watchers), throwers)
  /\ watchers' = [k \in 1..Len(watchers) |->
                    IF k \in unsubCalled' /\ k \notin throwers THEN FALSE ELSE watchers[k]]
  /\ appStateListener' = FALSE
  /\ destroyed' = TRUE
  /\ isInitialized' = FALSE
  /\ last' = Step("cleanup", throwers, <<>>, 0)
  /\ UNCHANGED <<cfg, idVars, released, storeVars, envVars, isAddingPlugins, timeline,
                 isStorageReady, pluginsToAdd, drainVars, flushVars, lifeVars,
                 histVars, pc, inits, startups, fuel>>

\* ---------------------------------------------------------------- init()
\* init() up to its first await
InitCall(i) ==
  /\ pc = "idle" /\ inits[i] = "new"
  /\ \A j \in 1..(i - 1) : inits[j] # "new"
  /\ IF isInitialized
     THEN /\ inits' = [inits EXCEPT ![i] = "noop"]
          /\ UNCHANGED <<isAddingPlugins, pc, drainVars, drainStarted, readySubs>>
     ELSE IF storeReady
     THEN /\ OnStorageReady(TRUE, i)
          /\ inits' = [inits EXCEPT ![i] = IF pc' = "drain" THEN "drain" ELSE "fetch"]
          /\ readySubs' = readySubs
     ELSE /\ readySubs' = readySubs + 1
          /\ inits' = [inits EXCEPT ![i] = "fetch"]
          /\ UNCHANGED <<isAddingPlugins, pc, drainVars, drainStarted>>
  /\ last' = Step("init", "", <<>>, 0)
  /\ UNCHANGED <<cfg, idVars, released, storeVars, envVars, timeline, isStorageReady, pluginsToAdd,
                 flushVars, setupVars, lifeVars, addLog, queuedLog, reentrantLog,
                 regLog, destroyed, isInitialized, startups, fuel>>

\* fetchSettings that clears the stored settings when the fetch fails and no
\* default settings are configured
FetchedSettingsClears(ok, hasDefault, old) ==
  IF ok THEN "remote" ELSE IF hasDefault THEN "default" ELSE "none"

\* fetchSettings(): what the store's settings become
FetchedSettings(ok, hasDefault, old) ==
  IF ok THEN "remote" ELSE IF hasDefault THEN "default" ELSE old

\* init() resumes after await fetchSettings(): the startup flush, then
\* (once flush() has returned) the timer and the subscriptions
FetchSettingsDone(i, ok) ==
  /\ pc = "idle" /\ inits[i] = "fetch"
  /\ settings' = FetchedSettings(ok, cfg.defaultSettings, settings)
  /\ FlushStart(i, events)
  /\ IF pc' = "idle"
     THEN InitSetup(i)
     ELSE /\ inits' = [inits EXCEPT ![i] = "flush"]
          /\ UNCHANGED setupVars
  /\ last' = Step("fetched", ok, <<>>, 1)
  /\ UNCHANGED <<cfg, idVars, released, storeReady, events, storeContext, forcedSettings, envVars,
                 gateVars, drainVars, lifeVars, histVars, destroyed,
                 isInitialized, startups, fuel>>

\* ---------------------------------------------------------------- lifecycle tracker
Ev(name, fromBackground) == <<name, fromBackground>>

\* process(createTrackEvent(...)) calls of trackDeepLinks
DeepLinkEvents(url, track) ==
  IF url /\ track THEN <<Ev("Deep Link Opened", "")>> ELSE <<>>

\* checkInstalledVersion sending exactly one of the three events
StartupEventsExclusive(track, prev, cur) ==
  IF ~track THEN <<>>
  ELSE IF prev = "none" THEN <<Ev("Application Installed", "")>>
  ELSE IF cur # prev THEN <<Ev("Application Updated", "")>>
  ELSE <<Ev("Application Opened", "false")>>

\* process(createTrackEvent(...)) calls of checkInstalledVersion; prev is the
\* version of store.context.get() before the overwrite, "none" without one
StartupEvents(track, prev, cur) ==
  IF ~track THEN <<>>
  ELSE (IF prev = "none" THEN <<Ev("Application Installed", "")>>
        ELSE IF cur # prev THEN <<Ev("Application Updated", "")>>
        ELSE <<>>) \o <<Ev("Application Opened", "false")>>

\* handleAppStateChange that takes every arrival at 'active' for a return
\* from the background
AppStateEventsAnyActive(track, prev, next) ==
  IF ~track THEN <<>>
  ELSE IF prev # "active" /\ next = "active"
       THEN <<Ev("Application Opened", "true")>>
  ELSE IF prev = "active" /\ next \in {"inactive", "background"}
       THEN <<Ev("Application Backgrounded", "")>>
  ELSE <<>>

\* process(createTrackEvent(...)) calls of handleAppStateChange
AppStateEvents(track, prev, next) ==
  IF ~track THEN <<>>
  ELSE IF prev \in {"inactive", "background"} /\ next = "active"
       THEN <<Ev("Application Opened", "true")>>
  ELSE IF prev = "active" /\ next \in {"inactive", "background"}
       THEN <<Ev("Application Backgrounded", "")>>
  ELSE <<>>

\* a startup check that persists the captured context only with lifecycle
\* tracking enabled
StoredContextIfTracking(track, prev, cur) == IF track THEN cur ELSE prev

\* checkInstalledVersion: store.context.set(context) comes before the
\* trackAppLifecycleEvents test
StoredContext(track, prev, cur) == cur

\* handleAppStateChange that remembers only the arrivals at 'active'
AppStateAfterActiveOnly(prev, next) == IF next = "active" THEN next ELSE prev

\* handleAppStateChange: this.appState = nextAppState, after every signal
AppStateAfter(prev, next) == next

LastTwo(s) == IF Len(s) <= 2 THEN s ELSE SubSeq(s, Len(s) - 1, Len(s))

\* init() resumes after await Linking.getInitialURL(), runs to await getContext()
UrlDone(i) ==
  /\ pc = "idle" /\ inits[i] = "url"
  /\ inits' = [inits EXCEPT ![i] = "ctx"]
  /\ last' = Step("deepLink", "", DeepLinkEvents(initialUrl, cfg.trackDeepLinks), 0)
  /\ UNCHANGED <<cfg, idVars, released, storeVars, envVars, gateVars, drainVars, flushVars,
                 setupVars, lifeVars, histVars, destroyed, isInitialized, pc,
                 startups, fuel>>

\* init() resumes after await getContext(): the rest of checkInstalledVersion,
\* then isInitialized = true
ContextDone(i) ==
  /\ pc = "idle" /\ inits[i] = "ctx"
  /\ storeContext' = StoredContext(cfg.trackAppLifecycleEvents, storeContext, appVersion)
  /\ installedCount' = installedCount +
       Count(StartupEvents(cfg.trackAppLifecycleEvents, storeContext, appVersion),
             Ev("Application Installed", ""))
  /\ checksDone' = checksDone + 1
  /\ isInitialized' = TRUE
  /\ inits' = [inits EXCEPT ![i] = "done"]
  /\ last' = StepP("check", appVersion, storeContext,
                   StartupEvents(cfg.trackAppLifecycleEvents, storeContext, appVersion), 0)
  /\ UNCHANGED <<cfg, idVars, released, storeReady, events, settings, forcedSettings, envVars,
                 gateVars, drainVars, flushVars, setupVars, appState, appEvents,
                 histVars, destroyed, pc, startups, fuel>>

\* the AppState 'change' listener
AppStateSignal(s) ==
  /\ pc = "idle" /\ appStateListener
  /\ appState' = AppStateAfter(appState, s)
  /\ appEvents' = LastTwo(appEvents \o AppStateEvents(cfg.trackAppLifecycleEvents, appState, s))
  /\ last' = StepP("appState", s, appState,
                   AppStateEvents(cfg.trackAppLifecycleEvents, appState, s), 0)
  /\ UNCHANGED <<cfg, idVars, released, storeVars, envVars, gateVars, drainVars, flushVars,
                 setupVars, checksDone, installedCount, histVars, destroyed,
                 isInitialized, pc, inits, startups, fuel>>

\* the process ends; the application starts again (possibly another version)
\* and constructs a client on the same persisted store
Restart(v, ready) ==
  /\ pc = "idle" /\ startups < MaxStartups
  /\ startups' = startups + 1
  /\ appVersion' = v
  /\ storeReady' = ready
  /\ secondsElapsed' = 0
  /\ appState' = "unknown"
  /\ appStateListener' = FALSE
  /\ timerOn' = FALSE
  /\ watchers' = <<>>
  /\ unsubCalled' = {}
  /\ destroyed' = FALSE
  /\ isPendingUpload' = FALSE
  /\ isAddingPlugins' = FALSE
  /\ timeline' = EmptyTimeline
  /\ isStorageReady' = FALSE
  /\ pluginsToAdd' = ConstructorAdds(cfg)
  /\ isInitialized' = FALSE
  /\ readySubs' = 0
  /\ drainIdx' = 0 /\ drainLen' = 0 /\ drainCaller' = 0
  /\ flushIdx' = 0 /\ flushList' = <<>> /\ flushCaller' = 0
  /\ inits' = [i \in 1..MaxInits |-> "new"]
  /\ inflight' = [p \in Plugins |-> 0]
  /\ addLog' = ConstructorAdds(cfg)
  /\ queuedLog' = ConstructorAdds(cfg)
  /\ reentrantLog' = <<>>
  /\ regLog' = <<>>
  /\ drainStarted' = FALSE
  /\ released' = {}
  /\ flushedSet' = {}
  /\ checksDone' = 0
  /\ appEvents' = <<>>
  /\ fuel' = [throws |-> MaxThrows, signals |-> MaxSignals, adds |-> MaxAdds]
  /\ last' = Step("new", "", <<>>, 0)
  /\ UNCHANGED <<cfg, idVars, events, storeContext, settings, forcedSettings,
                 initialUrl, installedCount, pc>>

\* ---------------------------------------------------------------- user identity
Undefined == "undefined"

\* a traits value: undefined, or a mapping of keys to values
NoTraits == [set |-> FALSE, kv |-> [k \in {} |-> 0]]

Traits(f) == [set |-> TRUE, kv |-> f]

TraitMaps == UNION {[D -> TraitVals] : D \in SUBSET TraitKeys}

TraitArgs == {NoTraits} \cup {Traits(f) : f \in TraitMaps}

\* the initial state of the userInfo slice
InitialUserInfo == [anonymousId |-> 1, userId |-> Undefined, traits |-> NoTraits]

\* { ...a, ...b }: spreading undefined contributes no key
SpreadBoth(a, b) ==
  Traits([k \in (DOMAIN a.kv) \cup (DOMAIN b.kv) |->
            IF k \in DOMAIN b.kv THEN b.kv[k] ELSE a.kv[k]])

\* process(): the event and the identity applyRawEventData attaches to it
Process(event, info) ==
  [raw |-> event, anonymousId |-> info.anonymousId, userId |-> info.userId]

\* identify()/alias() that dispatch before the store is written
InfoAtDispatchStale(before, after) == before

\* identify()/alias(): store.userInfo.set(...) precedes this.process(event),
\* so process() reads the identity the call has just stored
InfoAtDispatch(before, after) == after

\* identify(userId, userTraits)
Identify(u, t) ==
  /\ pc = "idle"
  /\ userInfo' = [userInfo EXCEPT !.userId = u,
                                  !.traits = SpreadBoth(userInfo.traits, t)]
  /\ last' = Step("identify", <<u, t>>,
                  <<Process([type |-> "identify",
                             traits |-> SpreadBoth(userInfo.traits, t)],
                            InfoAtDispatch(userInfo, userInfo'))>>, 0)
  /\ UNCHANGED <<cfg, uuids, released, storeVars, envVars, gateVars, drainVars, flushVars,
                 setupVars, lifeVars, histVars, destroyed, isInitialized, pc,
                 inits, startups, fuel>>

\* alias() that builds its event after the store is written
AliasCapturedLate(before, after) == after

\* alias(): the identifiers are read before store.userInfo.set(...)
AliasCaptured(before, after) == before

\* alias(newUserId)
Alias(u) ==
  /\ pc = "idle"
  /\ userInfo' = [userInfo EXCEPT !.userId = u]
  /\ last' = Step("alias", u,
                  <<Process([type |-> "alias",
                             anonymousId |-> AliasCaptured(userInfo, userInfo').anonymousId,
                             userId |-> AliasCaptured(userInfo, userInfo').userId,
                             newUserId |-> u],
                            InfoAtDispatch(userInfo, userInfo'))>>, 0)
  /\ UNCHANGED <<cfg, uuids, released, storeVars, envVars, gateVars, drainVars, flushVars,
                 setupVars, lifeVars, histVars, destroyed, isInitialized, pc,
                 inits, startups, fuel>>

\* getUUID(): an identifier it has not returned before
GetUUID(n) == n + 1

\* reset() that keeps the anonymous id
ResetUserKeepsId(info, fresh) ==
  [anonymousId |-> info.anonymousId, userId |-> Undefined, traits |-> NoTraits]

\* reset(): the value given to store.userInfo.set; fresh is what getUUID() returns
ResetUser(info, fresh) ==
  [anonymousId |-> fresh, userId |-> Undefined, traits |-> NoTraits]

\* reset(); getUUID() returns an identifier it has not returned before
Reset ==
  /\ pc = "idle" /\ uuids < MaxUuids
  /\ uuids' = GetUUID(uuids)
  /\ userInfo' = ResetUser(userInfo, GetUUID(uuids))
  /\ last' = Step("reset", "", <<>>, 0)
  /\ UNCHANGED <<cfg, released, storeVars, envVars, gateVars, drainVars, flushVars,
                 setupVars, lifeVars, histVars, destroyed, isInitialized, pc,
                 inits, startups, fuel>>

\* screen(), track(), group(): create the event, process() it
SendEvent(type) ==
  /\ pc = "idle"
  /\ last' = Step(type, "", <<Process([type |-> type], userInfo)>>, 0)
  /\ UNCHANGED <<cfg, idVars, released, storeVars, envVars, gateVars, drainVars, flushVars,
                 setupVars, lifeVars, histVars, destroyed, isInitialized, pc,
                 inits, startups, fuel>>

\* ---------------------------------------------------------------- specifications
Configs(autoAdds, lifecycles, deepLinks, intervals, flushAts, defaults) ==
  [autoAddSegmentDestination : autoAdds, trackAppLifecycleEvents : lifecycles,
   trackDeepLinks : deepLinks, flushInterval : intervals, flushAt : flushAts,
   defaultSettings : defaults]

\* the readiness gate: plugins are added, removed, and throw in configure();
\* the application removes the plugins it holds a reference to, its own
InitGate ==
  /\ cfg \in Configs(BOOLEAN, {FALSE}, {FALSE}, {2}, {2}, {FALSE})
  /\ storeReady \in BOOLEAN
  /\ events = 0 /\ storeContext = "none" /\ settings = "none"
  /\ forcedSettings = {}
  /\ appVersion = "v1" /\ initialUrl = FALSE
  /\ installedCount = 0 /\ startups = 1
  /\ userInfo = InitialUserInfo /\ uuids = 1
  /\ Constructed(cfg)

GateNext ==
  \/ \E i \in 1..MaxInits : InitCall(i)
  \/ \E v \in BOOLEAN : ReadySignal(v)
  \/ DrainConfigure
  \/ DrainThrow
  \/ DrainFinish
  \/ \E p \in UserPlugins, ws \in BOOLEAN : Add(p, ws)
  \/ \E p \in UserPlugins : DrainReentrantAdd(p)
  \/ \E p \in UserPlugins : AddThrows(p)
  \/ \E p \in UserPlugins : Remove(p)

SpecGate == InitGate /\ [][GateNext]_vars

\* the flush scheduler: the store is ready, the application adds flush-capable
\* plugins, events are queued and delivered, flushes come from every trigger
InitFlush ==
  /\ cfg \in Configs({TRUE}, {FALSE}, {FALSE}, 1..MaxInterval, {MaxEvents}, {FALSE})
  /\ storeReady = TRUE
  /\ events \in 0..1 /\ storeContext = "none" /\ settings = "none"
  /\ forcedSettings = {}
  /\ appVersion = "v1" /\ initialUrl = FALSE
  /\ installedCount = 0 /\ startups = 1
  /\ userInfo = InitialUserInfo /\ uuids = 1
  /\ Constructed(cfg)

\* the application adds a plugin that has a flush(), once
AddFlushPlugin(p) == HasFlush(p) /\ Count(addLog, p) = 0 /\ Add(p, FALSE)

FlushNext ==
  \/ \E i \in 1..MaxInits : InitCall(i)
  \/ DrainConfigure
  \/ DrainFinish
  \/ \E p \in UserPlugins : AddFlushPlugin(p)
  \/ \E i \in 1..MaxInits : FetchSettingsDone(i, TRUE)
  \/ ManualFlush
  \/ Tick
  \/ FlushPlugin
  \/ FlushPluginThrows
  \/ FlushInFlush
  \/ FlushExit
  \/ QueueEvent
  \/ \E p \in Plugins, k \in 0..MaxEvents : DeliveryDone(p, k)
  \/ Cleanup({})

SpecFlush == InitFlush /\ [][FlushNext]_vars

\* the lifecycle tracker: a fresh install, app-state signals, cleanup, and
\* restarts of the application (the same or another version) on the same
\* store; the store has loaded its persisted state when init() is called, so
\* that store.context.get() is the persisted context
InitLifecycle ==
  /\ cfg \in Configs({FALSE}, BOOLEAN, {TRUE}, {2}, {2}, {FALSE})
  /\ storeReady = TRUE
  /\ events = 0 /\ storeContext = "none" /\ settings = "none"
  /\ forcedSettings = {}
  /\ appVersion \in Versions /\ initialUrl \in BOOLEAN
  /\ installedCount = 0 /\ startups = 1
  /\ userInfo = InitialUserInfo /\ uuids = 1
  /\ Constructed(cfg)

LifecycleNext ==
  \/ \E i \in 1..MaxInits : InitCall(i)
  \/ DrainConfigure
  \/ DrainFinish
  \/ \E i \in 1..MaxInits : FetchSettingsDone(i, TRUE)
  \/ \E i \in 1..MaxInits : UrlDone(i)
  \/ \E i \in 1..MaxInits : ContextDone(i)
  \/ \E st \in AppStates : AppStateSignal(st)
  \/ Cleanup({})
  \/ \E v \in Versions : Restart(v, TRUE)

SpecLifecycle == InitLifecycle /\ [][LifecycleNext]_vars

\* the public API around the user identity: identify/alias/reset and the
\* event calls, with plugins pending and registered, before and after cleanup()
InitUser ==
  /\ cfg \in Configs({FALSE}, {FALSE}, {FALSE}, {2}, {2}, {FALSE})
  /\ storeReady = TRUE
  /\ events = 1 /\ storeContext = "none" /\ settings = "none"
  /\ forcedSettings = {}
  /\ appVersion = "v1" /\ initialUrl = FALSE
  /\ installedCount = 0 /\ startups = 1
  /\ userInfo = InitialUserInfo /\ uuids = 1
  /\ Constructed(cfg)

UserNext ==
  \/ \E i \in {1} : InitCall(i)
  \/ DrainConfigure
  \/ DrainFinish
  \/ \E p \in {"enrich"} : Add(p, FALSE)
  \/ \E p \in {"enrich"} : Remove(p)
  \/ \E u \in UserIds, t \in TraitArgs : Identify(u, t)
  \/ \E u \in UserIds : Alias(u)
  \/ Reset
  \/ \E type \in {"screen", "track", "group"} : SendEvent(type)
  \/ ManualFlush
  \/ Cleanup({})

SpecUser == InitUser /\ [][UserNext]_vars

\* the settings fetch: it succeeds or fails, with and without configured
\* default settings, on a fresh store and on one that holds settings of an
\* earlier run
InitSettings ==
  /\ cfg \in Configs(BOOLEAN, {FALSE}, {FALSE}, {2}, {2}, BOOLEAN)
  /\ storeReady = TRUE
  /\ events \in 0..1 /\ storeContext = "none" /\ settings = "none"
  /\ forcedSettings = {}
  /\ appVersion = "v1" /\ initialUrl = FALSE
  /\ installedCount = 0 /\ startups = 1
  /\ userInfo = InitialUserInfo /\ uuids = 1
  /\ Constructed(cfg)

SettingsNext ==
  \/ \E i \in 1..MaxInits : InitCall(i)
  \/ DrainConfigure
  \/ DrainFinish
  \/ \E i \in 1..MaxInits, ok \in BOOLEAN : FetchSettingsDone(i, ok)
  \/ FlushPlugin
  \/ FlushExit
  \/ \E i \in 1..MaxInits : UrlDone(i)
  \/ \E i \in 1..MaxInits : ContextDone(i)
  \/ \E v \in {"v1"} : Restart(v, TRUE)

SpecSettings == InitSettings /\ [][SettingsNext]_vars

\* the buffer watch: init() runs to its end, plugins queue events and remove
\* the ones they delivered, for every configured threshold
InitWatch ==
  /\ cfg \in Configs({TRUE}, {FALSE}, {FALSE}, {2}, 1..MaxEvents, {FALSE})
  /\ storeReady = TRUE
  /\ events \in 0..1 /\ storeContext = "none" /\ settings = "none"
  /\ forcedSettings = {}
  /\ appVersion = "v1" /\ initialUrl = FALSE
  /\ installedCount = 0 /\ startups = 1
  /\ userInfo = InitialUserInfo /\ uuids = 1
  /\ Constructed(cfg)

WatchNext ==
  \/ \E i \in 1..MaxInits : InitCall(i)
  \/ DrainConfigure
  \/ DrainFinish
  \/ \E i \in 1..MaxInits : FetchSettingsDone(i, TRUE)
  \/ FlushPlugin
  \/ FlushExit
  \/ \E i \in 1..MaxInits : UrlDone(i)
  \/ \E i \in 1..MaxInits : ContextDone(i)
  \/ QueueEvent
  \/ \E p \in Plugins, k \in 0..MaxEvents : DeliveryDone(p, k)
  \/ Cleanup({})

SpecWatch == InitWatch /\ [][WatchNext]_vars

\* teardown: init() calls run to their end or are overtaken by cleanup(), and
\* any of the unsubscribe functions cleanup() calls may throw
InitCleanup ==
  /\ cfg \in Configs({FALSE}, BOOLEAN, {FALSE}, {2}, {2}, {FALSE})
  /\ storeReady = TRUE
  /\ events = 0 /\ storeContext = "none" /\ settings = "none"
  /\ forcedSettings = {}
  /\ appVersion = "v1" /\ initialUrl = FALSE
  /\ installedCount = 0 /\ startups = 1
  /\ userInfo = InitialUserInfo /\ uuids = 1
  /\ Constructed(cfg)

CleanupNext ==
  \/ \E i \in 1..MaxInits : InitCall(i)
  \/ DrainConfigure
  \/ DrainFinish
  \/ \E i \in 1..MaxInits : FetchSettingsDone(i, TRUE)
  \/ \E i \in 1..MaxInits : UrlDone(i)
  \/ \E i \in 1..MaxInits : ContextDone(i)
  \/ \E T \in SUBSET (1..MaxInits) : Cleanup(T)

SpecCleanup == InitCleanup /\ [][CleanupNext]_vars

\* ---------------------------------------------------------------- claims: readiness gate
\* C1: every plugin queued while the gate was NotReady (by an add() call of
\* the constructor or the application) is configured and registered in the
\* Timeline exactly once, in the order of the add() calls, also when the
\* readiness handler runs more than once (a repeated true signal, or a drain
\* aborted by a throwing configure()): no plugin is ever registered more often
\* than it was added, and once the gate is open the first registrations are
\* exactly the queued plugins in queue order.
C1_QueuedRegisteredOnceInOrder ==
  /\ \A p \in Plugins : Count(regLog, p) <= Count(addLog, p)
  /\ (isStorageReady /\ pc = "idle") =>
        /\ Len(regLog) >= Len(queuedLog)
        /\ SubSeq(regLog, 1, Len(queuedLog)) = queuedLog

\* C2: a plugin add()ed from inside configure() during the readiness drain
\* ends up registered exactly once per add() call: once the drain is over and
\* the gate is open it is neither lost nor registered twice.
C2_ReentrantAddRegisteredOnce ==
  (isStorageReady /\ pc = "idle") =>
     \A p \in Plugins :
        Count(reentrantLog, p) > 0 => Count(regLog, p) = Count(addLog, p)

AddStep == last'.kind \in {"add", "addInConfigure"} /\ addLog' # addLog

\* the parts of C3 that do not speak of the Timeline's content while NotReady
C3_GateRules ==
  /\ ~isStorageReady
  /\ [][isStorageReady => isStorageReady']_vars
  /\ [][(~isStorageReady /\ isStorageReady') => storeReady]_vars
  /\ [][(AddStep /\ ~isStorageReady) =>
          /\ pluginsToAdd' = Append(pluginsToAdd, last'.arg)
          /\ timeline' = timeline
          /\ regLog' = regLog]_vars
  /\ [][(AddStep /\ isStorageReady) =>
          /\ timeline' = TimelineAdd(timeline, last'.arg)
          /\ regLog' = Append(regLog, last'.arg)
          /\ pluginsToAdd' = <<>>]_vars
  /\ [](isStorageReady => pluginsToAdd = <<>>)

\* C3 (as stated): the gate starts NotReady, opens only on a true readiness
\* signal and never closes; while NotReady add() only appends to the pending
\* queue, so the Timeline holds no plugin; once Ready add() registers at once
\* and the pending queue stays empty.
C3_Original ==
  /\ C3_GateRules
  /\ [](~isStorageReady => GetPlugins(timeline) = <<>>)

\* C3 (amended): as C3, but the Timeline is empty while NotReady only until a
\* readiness drain has started; from then on it holds what the drain registered.
C3_GateOneWay ==
  /\ C3_GateRules
  /\ []((~isStorageReady /\ ~drainStarted) => GetPlugins(timeline) = <<>>)

\* the gate is open, add() has just registered a plugin live, and an earlier
\* add() was queued while NotReady
C3_Witness ==
  /\ isStorageReady /\ last.kind = "add"
  /\ Len(queuedLog) > Len(ConstructorAdds(cfg))
  /\ Len(regLog) > Len(queuedLog)

\* ---------------------------------------------------------------- claims: flush scheduler
\* C4: at most one flush is in progress at any time: a flush() that arrives
\* while the plugin deliveries of an earlier flush have not finished is a
\* no-op, so no plugin ever has two delivery attempts outstanding.
C4_AtMostOneFlushInProgress == \A p \in Plugins : inflight[p] <= 1

\* a flush() call has just returned to its caller
FlushReturned ==
  \/ last.flushes > 0 /\ (pc = "idle" \/ last.kind = "flushInFlush")
  \/ last.kind \in {"flushed", "pluginFlushThrew"}

\* C5: a tick with fewer than flushInterval-1 elapsed seconds calls flush()
\* not at all and counts one second, the tick after flushInterval-1 counted
\* seconds calls flush() exactly once; and the elapsed-seconds counter is 0
\* whenever a flush() call has returned, attempted or skipped.
C5_TickAndCounterReset ==
  /\ [][last'.kind = "tick" =>
          IF secondsElapsed < cfg.flushInterval - 1
          THEN last'.flushes = 0 /\ secondsElapsed' = secondsElapsed + 1
          ELSE last'.flushes = 1]_vars
  /\ [](FlushReturned => secondsElapsed = 0)

FlushKinds ==
  {"flush", "tick", "fetched", "pluginFlush", "pluginFlushThrew", "flushInFlush", "flushed"}

\* C6: flush() calls a plugin's flush() only when the client is not torn down
\* and the buffered-event collection is non-empty, and no step of flush()
\* changes the buffered-event collection (the queueEvent that triggers a
\* flush leaves exactly the one event it added).
C6_FlushFrame ==
  /\ [](last.kind = "pluginFlush" => (~destroyed /\ events > 0))
  /\ [][last'.kind \in FlushKinds => events' = events]_vars
  /\ [][last'.kind = "queueEvent" => events' = events + 1]_vars

\* flush() is called on a torn-down client that has buffered events and a
\* flush-capable plugin
C6_Witness ==
  /\ destroyed /\ last.kind = "flush" /\ events > 0
  /\ GetPluginsWithFlush(timeline) # <<>>

\* C7: when a flush() that ran with a non-empty buffer has ended, the flush()
\* of every flush-capable plugin of the Timeline was called, also when an
\* earlier plugin's flush() threw, and no failure left flush().
C7_EveryPluginFlushed ==
  last.kind \in {"flushed", "pluginFlushThrew"} =>
     /\ flushedSet = {flushList[k] : k \in 1..Len(flushList)}
     /\ last.kind = "flushed"

\* ---------------------------------------------------------------- claims: lifecycle tracker
Installed       == <<"Application Installed", "">>
Updated         == <<"Application Updated", "">>
OpenedCold      == <<"Application Opened", "false">>
OpenedFromBg    == <<"Application Opened", "true">>
Backgrounded    == <<"Application Backgrounded", "">>

C10_CheckBeforeSignals ==
  (last.kind = "appState" /\ last.emits # <<>>) => checksDone > 0

\* ---------------------------------------------------------------- claims: user identity
\* C11: identify(userId, traits?) leaves the stored traits equal to the
\* previously stored traits overlaid with the supplied ones (supplied keys
\* overwrite, the other keys persist, omitted traits leave the stored traits
\* as they were), sets the stored user id to userId, leaves the stored
\* anonymous id unchanged, and dispatches an event whose traits are the
\* merged result.
C11_IdentifyMergesTraits ==
  [][last'.kind = "identify" =>
       /\ userInfo'.traits =
            IF ~last'.arg[2].set THEN userInfo.traits
            ELSE Traits([k \in (DOMAIN userInfo.traits.kv) \cup (DOMAIN last'.arg[2].kv) |->
                           IF k \in DOMAIN last'.arg[2].kv
                           THEN last'.arg[2].kv[k] ELSE userInfo.traits.kv[k]])
       /\ userInfo'.userId = last'.arg[1]
       /\ userInfo'.anonymousId = userInfo.anonymousId
       /\ last'.emits[1].raw.traits = userInfo'.traits]_vars

\* C12: each identify() call dispatches exactly one event to process(); the
\* event identify built has the type and the merged traits and no user-id
\* field; and process() finds the new user id and the merged traits already
\* in the store.
C12_IdentifyDispatch ==
  [][last'.kind = "identify" =>
       /\ Len(last'.emits) = 1
       /\ DOMAIN last'.emits[1].raw = {"type", "traits"}
       /\ last'.emits[1].raw.type = "identify"
       /\ last'.emits[1].raw.traits = userInfo'.traits
       /\ last'.emits[1].userId = last'.arg[1]
       /\ last'.emits[1].userId = userInfo'.userId
       /\ last'.emits[1].anonymousId = userInfo'.anonymousId]_vars

\* identify("u2", traits) has just run on a store that held traits under
\* other keys as well, and process() saw the user id u2
C12_Witness ==
  /\ last.kind = "identify" /\ userInfo.userId = "u2"
  /\ last.arg[2].set /\ DOMAIN last.arg[2].kv = {"a"}
  /\ DOMAIN userInfo.traits.kv = {"a", "b"}
  /\ last.emits[1].userId = "u2"

\* C13: alias(newUserId) builds its event from the anonymous id and the user
\* id stored before the call and from newUserId, then stores newUserId as the
\* user id; the stored anonymous id and traits are unchanged.
C13_AliasCapturesBeforeOverwrite ==
  [][last'.kind = "alias" =>
       /\ Len(last'.emits) = 1
       /\ last'.emits[1].raw.anonymousId = userInfo.anonymousId
       /\ last'.emits[1].raw.userId = userInfo.userId
       /\ last'.emits[1].raw.newUserId = last'.arg
       /\ userInfo' = [userInfo EXCEPT !.userId = last'.arg]]_vars

\* alias("u2") has just run for the identified user u1 who has traits
C13_Witness ==
  /\ last.kind = "alias" /\ last.arg = "u2"
  /\ last.emits[1].raw.userId = "u1" /\ userInfo.userId = "u2"
  /\ userInfo.traits.set /\ DOMAIN userInfo.traits.kv # {}

\* C14: reset() stores a newly generated anonymous id different from the one
\* before, clears the user id and the traits, and leaves the buffered events
\* and the registered and pending plugins unchanged.
C14_ResetFrame ==
  [][last'.kind = "reset" =>
       /\ userInfo'.anonymousId # userInfo.anonymousId
       /\ userInfo'.userId = Undefined
       /\ userInfo'.traits = NoTraits
       /\ events' = events
       /\ timeline' = timeline
       /\ pluginsToAdd' = pluginsToAdd]_vars

\* reset() has just run for the second time, with an event buffered and
\* plugins registered
C14_Witness ==
  /\ last.kind = "reset" /\ userInfo.anonymousId = 3
  /\ events > 0 /\ Len(GetPlugins(timeline)) > 1

\* ---------------------------------------------------------------- claims: init() and cleanup()
\* the positions of an init() call that has passed the isInitialized check
Started == {"drain", "fetch", "flush", "url", "ctx", "done", "failed"}

\* C15: init() is idempotent: between construction and cleanup at most one
\* init() call runs the startup sequence, also when a further init() is made
\* while an earlier one is suspended at an await, and the startup check runs
\* at most once.
C15_InitRunsOnce ==
  ~destroyed =>
     /\ Cardinality({i \in 1..MaxInits : inits[i] \in Started}) <= 1
     /\ checksDone <= 1

\* C16: cleanup() stops the timer, calls the unsubscribe of every store
\* watcher (also of those after one that throws; every watcher whose
\* unsubscribe returned is detached), removes the app-state listener and
\* leaves the client destroyed and not initialized; a second cleanup() ends
\* in the same state of the client.
C16_CleanupCompletes ==
  /\ [][last'.kind = "cleanup" =>
          /\ ~timerOn'
          /\ unsubCalled' = 1..Len(watchers)
          /\ Len(watchers') = Len(watchers)
          /\ \A k \in 1..Len(watchers) :
                watchers'[k] = (watchers[k] /\ k \in last'.arg)
          /\ ~appStateListener'
          /\ destroyed' /\ ~isInitialized']_vars
  /\ [][(last.kind = "cleanup" /\ last'.kind = "cleanup") =>
          /\ <<timerOn, appStateListener, destroyed, isInitialized, unsubCalled>>' =
               <<timerOn, appStateListener, destroyed, isInitialized, unsubCalled>>
          /\ \A k \in 1..Len(watchers) : watchers'[k] => watchers[k]]_vars

\* cleanup() has just run with two store watchers; the unsubscribe of the
\* first one threw, the second one was called and is detached
C16_Witness ==
  /\ last.kind = "cleanup" /\ 1 \in last.arg
  /\ Len(watchers) = 2 /\ unsubCalled = {1, 2} /\ ~watchers[2]
  /\ destroyed /\ ~timerOn /\ ~appStateListener

\* C17: once cleanup() has returned no flush timer is running, no app-state
\* listener and no readiness subscription is attached, and no store watcher
\* is attached whose unsubscribe cleanup() has not called, for every
\* interleaving of cleanup() with init().
C17_NothingAttachedAfterCleanup ==
  destroyed =>
     /\ ~timerOn
     /\ ~appStateListener
     /\ readySubs = 0
     /\ \A k \in 1..Len(watchers) : watchers[k] => k \in unsubCalled

PublicKinds ==
  {"track", "screen", "identify", "group", "alias", "reset", "add", "remove", "flush"}

\* C18: after cleanup() every public operation is a no-op: it gives no event
\* to process() and changes neither the stored user identity nor the pending
\* or registered plugins.
C18_NoOpAfterCleanup ==
  [][(destroyed /\ last'.kind \in PublicKinds) =>
       /\ last'.emits = <<>>
       /\ userInfo' = userInfo
       /\ timeline' = timeline
       /\ pluginsToAdd' = pluginsToAdd]_vars

\* C19: fetchSettings never throws: when the fetch fails the stored settings
\* become the configured default settings if there are any and stay what
\* they were otherwise, when it succeeds they become the fetched object; in
\* every case init() goes on to its startup flush.
C19_FetchSettingsFallback ==
  [][last'.kind = "fetched" =>
       /\ settings' = IF last'.arg THEN "remote"
                      ELSE IF cfg.defaultSettings THEN "default"
                      ELSE settings
       /\ last'.flushes = 1
       /\ \E i \in 1..MaxInits :
             inits[i] = "fetch" /\ inits'[i] \in {"flush", "url"}]_vars

\* the fetch has just failed without configured defaults on a store that
\* holds the settings fetched by an earlier run; init() went on
C19_Witness ==
  /\ last.kind = "fetched" /\ last.arg = FALSE /\ ~cfg.defaultSettings
  /\ settings = "remote"
  /\ \E i \in 1..MaxInits : inits[i] \in {"flush", "url"}

\* C20: no error leaves a public entry point: a configure() that throws
\* during add() or during the drain inside init(), or a flush() of a plugin
\* that throws, does not make add(), init() or flush() fail.
C20_NoErrorEscapes ==
  /\ last.kind \notin {"addThrew", "pluginFlushThrew"}
  /\ \A i \in 1..MaxInits : inits[i] # "failed"

\* ---------------------------------------------------------------- claims: remove()
\* C21: a plugin given to remove() is released: until add() is called for it
\* again it is not among the plugins getPlugins() returns and it is not
\* configured or registered, whether remove() was called while the gate was
\* NotReady (the plugin still in the pending queue) or Ready.
C21_RemovedStaysReleased ==
  \A p \in released : Count(GetPlugins(timeline), p) = 0

\* ---------------------------------------------------------------- claims: buffer watch
\* C22: while the client is initialized and not torn down, a change of the
\* buffered-event collection that leaves its size at or above flushAt makes
\* the watcher call flush() in the same turn, and a change that leaves it
\* below flushAt makes it call none.
C22_SizeTriggeredFlush ==
  [][(isInitialized /\ ~destroyed /\ events' # events) =>
       IF events' >= cfg.flushAt THEN last'.flushes >= 1 ELSE last'.flushes = 0]_vars

\* the client is initialized; a plugin has just removed exactly the events it
\* delivered, leaving the buffer exactly at the threshold, and the watcher
\* called flush()
C22_Witness ==
  /\ isInitialized /\ ~destroyed
  /\ last.kind = "delivered" /\ events = cfg.flushAt /\ last.flushes = 1

\* ---------------------------------------------------------------- claims: startup check, counter, alternation
\* C23: every startup check stores the freshly captured context in place of
\* the persisted one, with lifecycle tracking enabled or not; with tracking
\* disabled it emits nothing; and the events it emits are decided by the
\* context that was persisted before the overwrite.
C23_ContextAlwaysStored ==
  [][last'.kind = "check" =>
       /\ storeContext' = appVersion
       /\ last'.prev = storeContext
       /\ ~cfg.trackAppLifecycleEvents => last'.emits = <<>>
       /\ cfg.trackAppLifecycleEvents =>
             /\ (Installed \in {last'.emits[k] : k \in 1..Len(last'.emits)})
                   <=> storeContext = "none"
             /\ (Updated \in {last'.emits[k] : k \in 1..Len(last'.emits)})
                   <=> storeContext \notin {"none", appVersion}]_vars

\* tracking is disabled and the startup check of a new version has just
\* replaced the context an earlier process persisted, emitting nothing
C23_Witness ==
  /\ ~cfg.trackAppLifecycleEvents /\ startups = 2
  /\ last.kind = "check" /\ last.prev = "v1" /\ storeContext = "v2"
  /\ last.emits = <<>>

\* C24: for a configured flush interval of at least 1 the elapsed-seconds
\* counter stays within 0 .. flushInterval-1 after every tick, flush, init
\* and cleanup, also when the flush() of a tick is skipped.
C24_CounterBelowInterval ==
  cfg.flushInterval >= 1 =>
     (secondsElapsed >= 0 /\ secondsElapsed <= cfg.flushInterval - 1)

\* the timer of a torn-down client has ticked with flushInterval-1 counted
\* seconds: flush() was called and skipped, the counter stays where it was
C24_Witness ==
  /\ destroyed /\ last.kind = "tick" /\ last.flushes = 1
  /\ cfg.flushInterval = 2 /\ secondsElapsed = cfg.flushInterval - 1

\* C25: with lifecycle tracking enabled the events the app-state handler
\* emits alternate: two consecutive emissions are never both
\* Opened(from_background=true) and never both Backgrounded.
C25_EventsAlternate ==
  /\ \A k \in 1..Len(appEvents) : appEvents[k] \in {OpenedFromBg, Backgrounded}
  /\ Len(appEvents) = 2 => appEvents[1] # appEvents[2]

\* the handler has emitted Opened(from_background=true), then Backgrounded,
\* and has just taken a signal that emits nothing
C25_Witness ==
  /\ cfg.trackAppLifecycleEvents
  /\ appEvents = <<OpenedFromBg, Backgrounded>>
  /\ last.kind = "appState" /\ last.prev = "inactive" /\ last.arg = "background"
  /\ last.emits = <<>>

====
